---- MODULE Spec2Model ----
(***************************************************************************)
(* A model of clox's two components: the bytecode virtual machine of       *)
(* src/src/vm.c (evaluation stack, instruction pointer, dispatch loop) and *)
(* the lexical scanner of src/src/scanner.c.  The two never call each      *)
(* other, so each has a specification of its own over the shared variable  *)
(* list: VMSpec and ScannerSpec.                                           *)
(***************************************************************************)
EXTENDS Integers, Sequences, FiniteSets, TLC

VARIABLES
    stack,      \* vm.stack: the slots of the evaluation stack, 0 .. StackMax-1
    stackTop,   \* vm.stackTop, as an offset from vm.stack (0 = empty)
    chunk,      \* vm.chunk: [code, constants], or NoChunk before any interpret
    ip,         \* vm.ip, as an offset from vm.chunk->code
    running,    \* TRUE while control is inside run()
    result,     \* what the last interpret returned, or NoResult
    out,        \* what the current/last interpret wrote to stdout
    log,        \* history: the push/pop calls since the last initVM
    source,     \* the scanned buffer, without its terminating '\0'
    scanner,    \* the Scanner struct: [start, current, line], offsets into source
    token,      \* the Token the last scanToken returned, or NoToken
    calls,      \* history: number of scanToken calls since initScanner
    tokens      \* history: every Token returned since initScanner

vmVars   == <<stack, stackTop, chunk, ip, running, result, out, log>>
scanVars == <<source, scanner, token, calls, tokens>>
vars     == <<stack, stackTop, chunk, ip, running, result, out, log,
              source, scanner, token, calls, tokens>>

(***************************************************************************)
(* Bounds of the model.                                                    *)
(***************************************************************************)
\* Capacity of vm.stack (STACK_MAX of vm.h), kept small: overflow, underflow
\* and the order of the slots show at any capacity of two or more.
StackMax == 2
\* Longest history of push/pop calls explored after an initVM.
MaxOps == 4
\* How far past the stack's two ends the top marker is followed.
MaxStray == 1
\* Longest instruction sequence of a chunk.
MaxCode == 3
\* How many bytes past the end of the instruction sequence run() is followed.
MaxOverrun == 1
\* Longest buffer over Alphabet that is scanned (the probes are longer).
MaxLen == 3
\* scanToken calls followed after the one that can first return end-of-input.
MaxExtraCalls == 2

(***************************************************************************)
(* The virtual machine, src/src/vm.c                                       *)
(***************************************************************************)
\* The OpCode enumeration (chunk.h): the first two enumerators.
OP_CONSTANT == 0
OP_RETURN   == 1

\* The bytes a chunk is built from: the two opcodes and one undefined byte;
\* 0 and 1 also serve as constant-pool indices.
Bytes == {OP_CONSTANT, OP_RETURN, 2}

\* Runtime values pushed or held in a constant pool.
Values == {1, 2}
\* What a read of memory outside an object can yield.
Garbage == Values \cup {0, -1}

NoChunk  == [code |-> <<>>, constants |-> <<>>]
NoResult == "none"

ConstPools == {<<1>>, <<2, 1>>}
RECURSIVE SeqsUpTo(_, _)
SeqsUpTo(S, n) ==
    IF n = 0 THEN {<<>>}
    ELSE LET shorter == SeqsUpTo(S, n - 1)
         IN  shorter \cup {Append(s, x) : s \in {t \in shorter : Len(t) = n - 1}, x \in S}
Chunks == {[code |-> c, constants |-> k] : c \in SeqsUpTo(Bytes, MaxCode) \ {<<>>},
                                             k \in ConstPools}

\* resetStack(): vm.stackTop = vm.stack.
resetStack == 0

\* initVM(): resets the top marker; the slots keep what they held.
InitVM ==
    /\ ~running
    /\ stackTop' = resetStack
    /\ log' = <<>>
    /\ UNCHANGED <<stack, chunk, ip, running, result, out>>
    /\ UNCHANGED scanVars

\* The slot push(value) writes: `*vm.stack = value` is the base slot.
pushTarget(top) == 0

\* push(value): *vm.stack = value; vm.stackTop++.
push(stk, top, value) ==
    [stack |-> [stk EXCEPT ![pushTarget(top)] = value], stackTop |-> top + 1]

\* pop(): vm.stackTop--; return *vm.stackTop.  The read of a slot outside
\* vm.stack is undefined: `junk` stands for whatever it yields.
pop(stk, top, junk) ==
    [stackTop |-> top - 1,
     value    |-> IF top - 1 \in 0 .. StackMax - 1 THEN stk[top - 1] ELSE junk]

Push(v) ==
    /\ ~running
    /\ Len(log) < MaxOps
    /\ stackTop < StackMax + MaxStray
    /\ LET r == push(stack, stackTop, v)
       IN  /\ stack' = r.stack
           /\ stackTop' = r.stackTop
    /\ log' = Append(log, [op |-> "push", value |-> v])
    /\ UNCHANGED <<chunk, ip, running, result, out>>
    /\ UNCHANGED scanVars

Pop ==
    /\ ~running
    /\ Len(log) < MaxOps
    /\ stackTop > -MaxStray
    /\ \E junk \in (IF stackTop - 1 \in 0 .. StackMax - 1 THEN {0} ELSE Garbage) :
         LET r == pop(stack, stackTop, junk)
         IN  /\ stackTop' = r.stackTop
             /\ log' = Append(log, [op |-> "pop", value |-> r.value])
    /\ UNCHANGED <<stack, chunk, ip, running, result, out>>
    /\ UNCHANGED scanVars

\* interpret(chunk): vm.chunk = chunk; vm.ip = vm.chunk->code; return run().
\* This step is the two assignments; Dispatch is one turn of run()'s loop.
Interpret(c) ==
    /\ ~running
    /\ chunk' = c
    /\ ip' = 0
    /\ running' = TRUE
    /\ result' = NoResult
    /\ out' = <<>>
    /\ UNCHANGED <<stack, stackTop, log>>
    /\ UNCHANGED scanVars

\* READ_BYTE(): *vm.ip++.  A read past the end of the code is undefined:
\* `junk` stands for the byte it yields.
READ_BYTE(c, p, junk) == IF p < Len(c.code) THEN c.code[p + 1] ELSE junk

\* READ_CONSTANT(): vm.chunk->constants.values[READ_BYTE()], undefined for an
\* index outside the pool.
READ_CONSTANT(c, idx, junk) ==
    IF idx < Len(c.constants) THEN c.constants[idx + 1] ELSE junk

\* A variant of runStep whose OP_CONSTANT case leaves its operand byte to be
\* fetched as the next instruction.
runStep_NoOperand(c, p, o, b1, b2, v) ==
    LET instruction == READ_BYTE(c, p, b1)
    IN  IF instruction = OP_CONSTANT
        THEN [ip |-> p + 1, out |-> Append(o, READ_CONSTANT(c, READ_BYTE(c, p + 1, b2), v)),
              running |-> TRUE, result |-> NoResult]
        ELSE IF instruction = OP_RETURN
        THEN [ip |-> p + 1, out |-> o, running |-> FALSE, result |-> "INTERPRET_OK"]
        ELSE [ip |-> p + 1, out |-> o, running |-> TRUE, result |-> NoResult]

\* One turn of run()'s for(;;): fetch, then the switch.  OP_CONSTANT reads its
\* operand and prints the constant; OP_RETURN returns INTERPRET_OK; the switch
\* has no default, so any other byte falls out of it and the loop goes on.
runStep(c, p, o, b1, b2, v) ==
    LET instruction == READ_BYTE(c, p, b1)
    IN  IF instruction = OP_CONSTANT
        THEN [ip |-> p + 2, out |-> Append(o, READ_CONSTANT(c, READ_BYTE(c, p + 1, b2), v)),
              running |-> TRUE, result |-> NoResult]
        ELSE IF instruction = OP_RETURN
        THEN [ip |-> p + 1, out |-> o, running |-> FALSE, result |-> "INTERPRET_OK"]
        ELSE [ip |-> p + 1, out |-> o, running |-> TRUE, result |-> NoResult]

Dispatch ==
    /\ running
    /\ ip < Len(chunk.code) + MaxOverrun
    /\ \E b1 \in (IF ip < Len(chunk.code) THEN {0} ELSE Bytes),
          b2 \in (IF ip + 1 < Len(chunk.code) THEN {0} ELSE Bytes),
          v  \in Garbage :
         LET r == runStep(chunk, ip, out, b1, b2, v)
         IN  /\ ip' = r.ip
             /\ out' = r.out
             /\ running' = r.running
             /\ result' = r.result
    /\ UNCHANGED <<stack, stackTop, chunk, log>>
    /\ UNCHANGED scanVars


(***************************************************************************)
(* Characters.  A character is its ASCII code, so that the range tests of  *)
(* isAlpha and isDigit are the comparisons the C code makes; Ord gives the *)
(* code of a one-character string and Str the codes of a literal.          *)
(***************************************************************************)
\* The printable characters but the backquote (code 96), in code order.
Printable ==
    <<" ", "!", "\"", "#", "$", "%", "&", "'", "(", ")", "*", "+", ",", "-", ".", "/",
      "0", "1", "2", "3", "4", "5", "6", "7", "8", "9", ":", ";", "<", "=", ">", "?",
      "@", "A", "B", "C", "D", "E", "F", "G", "H", "I", "J", "K", "L", "M", "N", "O",
      "P", "Q", "R", "S", "T", "U", "V", "W", "X", "Y", "Z", "[", "\\", "]", "^", "_",
      "a", "b", "c", "d", "e", "f", "g", "h", "i", "j", "k", "l", "m", "n", "o",
      "p", "q", "r", "s", "t", "u", "v", "w", "x", "y", "z", "{", "|", "}", "~">>

Ord(c) ==
    CASE c = "\t" -> 9
      [] c = "\n" -> 10
      [] c = "\r" -> 13
      [] OTHER    -> LET i == CHOOSE j \in 1 .. Len(Printable) : Printable[j] = c
                     IN  IF i <= 64 THEN 31 + i ELSE 32 + i

Str(s) == [i \in 1 .. Len(s) |-> Ord(s[i])]

\* The terminating sentinel, the character of code 0.
NUL == 0
LowerA == Ord("a")
LowerZ == Ord("z")
UpperA == Ord("A")
UpperZ == Ord("Z")
Underscore == Ord("_")
Digit0 == Ord("0")
Digit9 == Ord("9")
Space == Ord(" ")
Tab == Ord("\t")
CR == Ord("\r")
NL == Ord("\n")
Slash == Ord("/")
Quote == Ord("\"")
Dot == Ord(".")
Equal == Ord("=")

(***************************************************************************)
(* The scanner, src/src/scanner.c.  A Scanner value is the struct          *)
(* [start, current, line], its pointers as offsets into the buffer; buf is *)
(* the text before the sentinel, and offset Len(buf) holds the sentinel.   *)
(* No offset beyond the sentinel is readable: CharAt is undefined there    *)
(* and TLC stops with an error should the scanner ever read one.           *)
(***************************************************************************)
CharAt(buf, p) == IF p = Len(buf) THEN NUL ELSE buf[p + 1]

\* initScanner(source)
initScanner == [start |-> 0, current |-> 0, line |-> 1]

isAlpha(c) ==
    \/ (c >= LowerA /\ c <= LowerZ)
    \/ (c >= UpperA /\ c <= UpperZ)
    \/ c = Underscore

isDigit(c) == c >= Digit0 /\ c <= Digit9

isAtEnd(buf, sc) == CharAt(buf, sc.current) = NUL

\* advance(): scanner.current++; return scanner.current[-1].
advance(buf, sc) ==
    [sc |-> [sc EXCEPT !.current = @ + 1], c |-> CharAt(buf, sc.current)]

peek(buf, sc) == CharAt(buf, sc.current)

peekNext(buf, sc) ==
    IF isAtEnd(buf, sc) THEN NUL ELSE CharAt(buf, sc.current + 1)

\* A variant of match that reports the match without consuming the character.
match_NoConsume(buf, sc, expected) ==
    IF isAtEnd(buf, sc) THEN [sc |-> sc, ok |-> FALSE]
    ELSE IF CharAt(buf, sc.current) # expected THEN [sc |-> sc, ok |-> FALSE]
    ELSE [sc |-> sc, ok |-> TRUE]

\* match(expected): the updated scanner and the boolean returned.
match(buf, sc, expected) ==
    IF isAtEnd(buf, sc) THEN [sc |-> sc, ok |-> FALSE]
    ELSE IF CharAt(buf, sc.current) # expected THEN [sc |-> sc, ok |-> FALSE]
    ELSE [sc |-> [sc EXCEPT !.current = @ + 1], ok |-> TRUE]

\* A Token's start is a pointer: into the source buffer at an offset, or, for
\* TOKEN_ERROR, to the first character of a message literal.
SrcPtr(p) == [base |-> "source", off |-> p]
MsgPtr(message) == [base |-> message, off |-> 0]

\* A variant of makeToken whose length counts the character under the cursor.
makeToken_LengthPlusOne(sc, type) ==
    [type |-> type, start |-> SrcPtr(sc.start), length |-> sc.current - sc.start + 1,
     line |-> sc.line]

makeToken(sc, type) ==
    [type |-> type, start |-> SrcPtr(sc.start), length |-> sc.current - sc.start,
     line |-> sc.line]

errorToken(sc, message) ==
    [type |-> "TOKEN_ERROR", start |-> MsgPtr(message), length |-> Len(message),
     line |-> sc.line]

\* A variant of the comment loop that also consumes the newline that ends the
\* comment, without counting it.
skipComment_ThroughNewline(buf, sc) ==
    LET end == CHOOSE e \in sc.current .. Len(buf) :
                   /\ e = Len(buf) \/ buf[e + 1] = NL
                   /\ \A i \in sc.current .. e - 1 : buf[i + 1] # NL
    IN  [sc EXCEPT !.current = IF end < Len(buf) THEN end + 1 ELSE end]

\* The comment loop of skipWhitespace: while (peek() != '\n' && !isAtEnd()) advance().
RECURSIVE skipComment(_, _)
skipComment(buf, sc) ==
    IF peek(buf, sc) # NL /\ ~isAtEnd(buf, sc)
    THEN skipComment(buf, advance(buf, sc).sc)
    ELSE sc

RECURSIVE skipWhitespace(_, _)
skipWhitespace(buf, sc) ==
    LET c == peek(buf, sc)
    IN  IF c \in {Space, CR, Tab}
        THEN skipWhitespace(buf, advance(buf, sc).sc)
        ELSE IF c = NL
        THEN skipWhitespace(buf, advance(buf, [sc EXCEPT !.line = @ + 1]).sc)
        ELSE IF c = Slash
        THEN IF peekNext(buf, sc) = Slash
             THEN skipWhitespace(buf, skipComment(buf, sc))
             ELSE sc
        ELSE sc

\* A variant of checkKeyword that compares the characters but not the length.
checkKeyword_NoLength(buf, sc, start, length, rest, type) ==
    IF \A i \in 0 .. length - 1 : CharAt(buf, sc.start + start + i) = rest[i + 1]
    THEN type
    ELSE "TOKEN_IDENTIFIER"

\* checkKeyword(start, length, rest, type); rest is the codes of the literal.
checkKeyword(buf, sc, start, length, rest, type) ==
    IF /\ sc.current - sc.start = start + length
       /\ \A i \in 0 .. length - 1 : CharAt(buf, sc.start + start + i) = rest[i + 1]
    THEN type
    ELSE "TOKEN_IDENTIFIER"

identifierType(buf, sc) ==
    LET c0 == CharAt(buf, sc.start)
        c1 == CharAt(buf, sc.start + 1)
    IN  CASE c0 = Ord("a") -> checkKeyword(buf, sc, 1, 2, Str(<<"n", "d">>), "TOKEN_AND")
          [] c0 = Ord("c") -> checkKeyword(buf, sc, 1, 4, Str(<<"l", "a", "s", "s">>), "TOKEN_CLASS")
          [] c0 = Ord("e") -> checkKeyword(buf, sc, 1, 3, Str(<<"l", "s", "e">>), "TOKEN_ELSE")
          [] c0 = Ord("f") ->
               IF sc.current - sc.start > 1
               THEN CASE c1 = Ord("a") -> checkKeyword(buf, sc, 2, 3, Str(<<"l", "s", "e">>), "TOKEN_FALSE")
                      [] c1 = Ord("o") -> checkKeyword(buf, sc, 2, 1, Str(<<"r">>), "TOKEN_FOR")
                      [] c1 = Ord("u") -> checkKeyword(buf, sc, 2, 1, Str(<<"n">>), "TOKEN_FUN")
                      [] OTHER -> "TOKEN_IDENTIFIER"
               ELSE "TOKEN_IDENTIFIER"
          [] c0 = Ord("i") -> checkKeyword(buf, sc, 1, 1, Str(<<"f">>), "TOKEN_IF")
          [] c0 = Ord("n") -> checkKeyword(buf, sc, 1, 2, Str(<<"i", "l">>), "TOKEN_NIL")
          [] c0 = Ord("o") -> checkKeyword(buf, sc, 1, 1, Str(<<"r">>), "TOKEN_OR")
          [] c0 = Ord("p") -> checkKeyword(buf, sc, 1, 4, Str(<<"r", "i", "n", "t">>), "TOKEN_PRINT")
          [] c0 = Ord("r") -> checkKeyword(buf, sc, 1, 5, Str(<<"e", "t", "u", "r", "n">>), "TOKEN_RETURN")
          [] c0 = Ord("s") -> checkKeyword(buf, sc, 1, 4, Str(<<"u", "p", "e", "r">>), "TOKEN_SUPER")
          [] c0 = Ord("t") ->
               IF sc.current - sc.start > 1
               THEN CASE c1 = Ord("h") -> checkKeyword(buf, sc, 2, 2, Str(<<"i", "s">>), "TOKEN_THIS")
                      [] c1 = Ord("r") -> checkKeyword(buf, sc, 2, 2, Str(<<"u", "e">>), "TOKEN_TRUE")
                      [] OTHER -> "TOKEN_IDENTIFIER"
               ELSE "TOKEN_IDENTIFIER"
          [] c0 = Ord("v") -> checkKeyword(buf, sc, 1, 2, Str(<<"a", "r">>), "TOKEN_VAR")
          [] c0 = Ord("w") -> checkKeyword(buf, sc, 1, 4, Str(<<"h", "i", "l", "e">>), "TOKEN_WHILE")
          [] OTHER -> "TOKEN_IDENTIFIER"

\* while (isDigit(peek())) advance();
RECURSIVE skipDigits(_, _)
skipDigits(buf, sc) ==
    IF isDigit(peek(buf, sc)) THEN skipDigits(buf, advance(buf, sc).sc) ELSE sc

\* while (isAlpha(peek()) || isDigit(peek())) advance();
RECURSIVE skipAlnum(_, _)
skipAlnum(buf, sc) ==
    IF isAlpha(peek(buf, sc)) \/ isDigit(peek(buf, sc))
    THEN skipAlnum(buf, advance(buf, sc).sc)
    ELSE sc

\* The token functions return the updated scanner and the token.
identifier(buf, sc) ==
    LET s1 == skipAlnum(buf, sc)
    IN  [sc |-> s1, token |-> makeToken(s1, identifierType(buf, s1))]

\* A variant of number that takes any '.' after the digits as a fraction's.
number_NoLookahead(buf, sc) ==
    LET s1 == skipDigits(buf, sc)
        s2 == IF peek(buf, s1) = Dot
              THEN skipDigits(buf, advance(buf, s1).sc)
              ELSE s1
    IN  [sc |-> s2, token |-> makeToken(s2, "TOKEN_NUMBER")]

number(buf, sc) ==
    LET s1 == skipDigits(buf, sc)
        s2 == IF peek(buf, s1) = Dot /\ isDigit(peekNext(buf, s1))
              THEN skipDigits(buf, advance(buf, s1).sc)
              ELSE s1
    IN  [sc |-> s2, token |-> makeToken(s2, "TOKEN_NUMBER")]

\* A variant of the string loop that does not count the newlines it consumes.
RECURSIVE stringBody_NoLineCount(_, _)
stringBody_NoLineCount(buf, sc) ==
    IF peek(buf, sc) # Quote /\ ~isAtEnd(buf, sc)
    THEN stringBody_NoLineCount(buf, advance(buf, sc).sc)
    ELSE sc

\* while (peek() != '"' && !isAtEnd()) { if (peek() == '\n') scanner.line++; advance(); }
RECURSIVE stringBody(_, _)
stringBody(buf, sc) ==
    IF peek(buf, sc) # Quote /\ ~isAtEnd(buf, sc)
    THEN stringBody(buf, advance(buf, IF peek(buf, sc) = NL
                                      THEN [sc EXCEPT !.line = @ + 1]
                                      ELSE sc).sc)
    ELSE sc

\* A variant of string that, finding no closing quote, puts the cursor back
\* on the opening quote.
string_Rewind(buf, sc) ==
    LET s1 == stringBody(buf, sc)
    IN  IF isAtEnd(buf, s1)
        THEN [sc |-> [s1 EXCEPT !.current = sc.start],
              token |-> errorToken(s1, "Unterminated string.")]
        ELSE LET s2 == advance(buf, s1).sc
             IN  [sc |-> s2, token |-> makeToken(s2, "TOKEN_STRING")]

\* A variant of string without the isAtEnd() test: it consumes the character
\* under the cursor as the closing quote wherever the body loop stopped.
string_NoEndCheck(buf, sc) ==
    LET s1 == stringBody(buf, sc)
        s2 == [s1 EXCEPT !.current = @ + 1]
    IN  [sc |-> s2, token |-> makeToken(s2, "TOKEN_STRING")]

\* A variant of string that makes the token before it consumes the closing
\* quote.
string_DropsClosingQuote(buf, sc) ==
    LET s1 == stringBody(buf, sc)
    IN  IF isAtEnd(buf, s1)
        THEN [sc |-> s1, token |-> errorToken(s1, "Unterminated string.")]
        ELSE LET s2 == advance(buf, s1).sc
             IN  [sc |-> s2, token |-> makeToken(s1, "TOKEN_STRING")]

string(buf, sc) ==
    LET s1 == stringBody(buf, sc)
    IN  IF isAtEnd(buf, s1)
        THEN [sc |-> s1, token |-> errorToken(s1, "Unterminated string.")]
        ELSE LET s2 == advance(buf, s1).sc
             IN  [sc |-> s2, token |-> makeToken(s2, "TOKEN_STRING")]

\* The single-character cases of scanToken's switch.
Punctuation ==
    [c \in {Ord("("), Ord(")"), Ord("{"), Ord("}"), Ord(";"), Ord(","), Ord("."),
            Ord("-"), Ord("+"), Ord("/"), Ord("*")} |->
        CASE c = Ord("(") -> "TOKEN_LEFT_PAREN"
          [] c = Ord(")") -> "TOKEN_RIGHT_PAREN"
          [] c = Ord("{") -> "TOKEN_LEFT_BRACE"
          [] c = Ord("}") -> "TOKEN_RIGHT_BRACE"
          [] c = Ord(";") -> "TOKEN_SEMICOLON"
          [] c = Ord(",") -> "TOKEN_COMMA"
          [] c = Ord(".") -> "TOKEN_DOT"
          [] c = Ord("-") -> "TOKEN_MINUS"
          [] c = Ord("+") -> "TOKEN_PLUS"
          [] c = Ord("/") -> "TOKEN_SLASH"
          [] c = Ord("*") -> "TOKEN_STAR"]

\* The cases '!', '=', '<', '>': makeToken(match('=') ? two : one).
oneOrTwo(buf, sc, two, one) ==
    LET m == match(buf, sc, Equal)
    IN  [sc |-> m.sc, token |-> makeToken(m.sc, IF m.ok THEN two ELSE one)]

\* A variant of classify that gives up at an unexpected character: it leaves
\* the cursor on the sentinel.
classify_StopOnError(buf, sc, c) ==
    IF isAlpha(c) THEN identifier(buf, sc)
    ELSE IF isDigit(c) THEN number(buf, sc)
    ELSE IF c \in DOMAIN Punctuation
    THEN [sc |-> sc, token |-> makeToken(sc, Punctuation[c])]
    ELSE IF c = Ord("!") THEN oneOrTwo(buf, sc, "TOKEN_BANG_EQUAL", "TOKEN_BANG")
    ELSE IF c = Ord("=") THEN oneOrTwo(buf, sc, "TOKEN_EQUAL_EQUAL", "TOKEN_EQUAL")
    ELSE IF c = Ord("<") THEN oneOrTwo(buf, sc, "TOKEN_LESS_EQUAL", "TOKEN_LESS")
    ELSE IF c = Ord(">") THEN oneOrTwo(buf, sc, "TOKEN_GREATER_EQUAL", "TOKEN_GREATER")
    ELSE IF c = Quote THEN string(buf, sc)
    ELSE [sc |-> [sc EXCEPT !.current = Len(buf)],
          token |-> errorToken(sc, "Unexpected character.")]

\* scanToken() from `if (isAlpha(c))` on: the branch taken for the character c
\* that advance() returned, with sc the scanner after that advance().
classify(buf, sc, c) ==
    IF isAlpha(c) THEN identifier(buf, sc)
    ELSE IF isDigit(c) THEN number(buf, sc)
    ELSE IF c \in DOMAIN Punctuation
    THEN [sc |-> sc, token |-> makeToken(sc, Punctuation[c])]
    ELSE IF c = Ord("!") THEN oneOrTwo(buf, sc, "TOKEN_BANG_EQUAL", "TOKEN_BANG")
    ELSE IF c = Ord("=") THEN oneOrTwo(buf, sc, "TOKEN_EQUAL_EQUAL", "TOKEN_EQUAL")
    ELSE IF c = Ord("<") THEN oneOrTwo(buf, sc, "TOKEN_LESS_EQUAL", "TOKEN_LESS")
    ELSE IF c = Ord(">") THEN oneOrTwo(buf, sc, "TOKEN_GREATER_EQUAL", "TOKEN_GREATER")
    ELSE IF c = Quote THEN string(buf, sc)
    ELSE [sc |-> sc, token |-> errorToken(sc, "Unexpected character.")]

\* A variant of scanToken that looks at the character without consuming it
\* (peek() where the code calls advance()).
scanToken_Peek(buf, sc) ==
    LET s0 == skipWhitespace(buf, sc)
        s1 == [s0 EXCEPT !.start = s0.current]
    IN  IF isAtEnd(buf, s1)
        THEN [sc |-> s1, token |-> makeToken(s1, "TOKEN_EOF")]
        ELSE classify(buf, s1, peek(buf, s1))

\* A variant of scanToken that counts the sentinel as a line end.
scanToken_EofCountsLine(buf, sc) ==
    LET s0 == skipWhitespace(buf, sc)
        s1 == [s0 EXCEPT !.start = s0.current]
    IN  IF isAtEnd(buf, s1)
        THEN [sc |-> [s1 EXCEPT !.line = @ + 1], token |-> makeToken(s1, "TOKEN_EOF")]
        ELSE LET a == advance(buf, s1)
             IN  classify(buf, a.sc, a.c)

scanToken(buf, sc) ==
    LET s0 == skipWhitespace(buf, sc)
        s1 == [s0 EXCEPT !.start = s0.current]
    IN  IF isAtEnd(buf, s1)
        THEN [sc |-> s1, token |-> makeToken(s1, "TOKEN_EOF")]
        ELSE LET a == advance(buf, s1)
             IN  classify(buf, a.sc, a.c)

(***************************************************************************)
(* The buffers scanned: every text over Alphabet up to MaxLen characters,  *)
(* and probes for the cases that need longer or other texts.               *)
(***************************************************************************)
Alphabet ==
    {Ord(c) : c \in {" ", "\n", "/", "\"", "1", ".", "o", "r", "=", "!", "@"}}

\* The keyword table of identifierType, as texts.
Keywords ==
    {<<"a", "n", "d">>, <<"c", "l", "a", "s", "s">>, <<"e", "l", "s", "e">>,
     <<"f", "a", "l", "s", "e">>, <<"f", "o", "r">>, <<"f", "u", "n">>, <<"i", "f">>,
     <<"n", "i", "l">>, <<"o", "r">>, <<"p", "r", "i", "n", "t">>,
     <<"r", "e", "t", "u", "r", "n">>, <<"s", "u", "p", "e", "r">>,
     <<"t", "h", "i", "s">>, <<"t", "r", "u", "e">>, <<"v", "a", "r">>,
     <<"w", "h", "i", "l", "e">>}

\* Keywords, their proper prefixes, one-character extensions, one-character
\* substitutions and capitalisations, alone and between other lexemes.
KeywordProbes ==
    LET words ==
            UNION {{Str(k)}
                   \cup {Str(SubSeq(k, 1, n)) : n \in 1 .. Len(k) - 1}
                   \cup {Str(k \o <<x>>) : x \in {"s", "e", "_", "1", "F"}}
                   \cup {Str([k EXCEPT ![i] = x]) : i \in 1 .. Len(k), x \in {"x", "F", "o", "_"}}
                   \cup {Str(<<x>> \o k) : x \in {"_", "a", "t"}}
                   : k \in Keywords}
    IN  words
        \cup {Str(<<"1", " ">>) \o w \o Str(<<"(", "r">>) : w \in {Str(k) : k \in Keywords}}
        \cup {Str(<<"f", "o", "r", " ", "f", "o", "r", "e", "s", "t", " ", "f", "o">>),
              Str(<<"f", "o", "r", "e", "s", "t">>),
              Str(<<"F", "O", "R">>), Str(<<"_", "f", "o", "r">>),
              Str(<<"f", "o", "r", "/", "/", "f", "o", "r", "\n", "f", "o", "r">>)}

\* Every character alone and before '=', and longer numbers, strings and comments.
OtherProbes ==
    LET all == {9, 10, 13} \cup 32 .. 126
    IN  {<<c>> : c \in all}
        \cup {<<c, Equal>> : c \in all}
        \cup {<<Digit0, c>> : c \in all}
        \cup {Str(<<"1", "2", ".", "5">>), Str(<<"1", "2", ".">>), Str(<<"1", "2", ".", "a">>),
              Str(<<"1", ".", "2", ".", "3">>), Str(<<"1", ".", ".", "2">>),
              Str(<<"0", "9", ".", "0", "9", " ", ".", "5">>),
              Str(<<"\"", "a", "b", "c", "\"">>), Str(<<"\"", "a", "b", "c">>),
              Str(<<"\n", "\"", "a", "\n", "\n", "b", "\"", " ", "x">>),
              Str(<<"\n", "\"", "a", "\n", "\n", "b">>),
              Str(<<"\"", "a", "\"", " ", "\"", "\n", "b">>),
              Str(<<"\t", "\r", "\n", "x", "\r", "\n", "\"", "\"", "\"">>),
              Str(<<"/", "/", " ", "\"", "\n", "/", "1", "/", "/">>),
              Str(<<"@", " ", "1", "/", "/", "x", "\n", "\"", "a">>),
              Str(<<"a", " ", "b">>),
              Str(<<"a", "1", "_", "Z", "9", ".", "z", "A">>)}

Sources == SeqsUpTo(Alphabet, MaxLen) \cup KeywordProbes \cup OtherProbes

\* The buffers of an initScanner call made after scanToken calls.  The call
\* leaves nothing of the state before it, so what follows it is a scan from
\* an initial state: a few buffers of Sources are enough here (the empty
\* one, each character of Alphabet alone, and one of several tokens).
Rescans == {<<>>} \cup {<<c>> : c \in Alphabet} \cup {Str(<<"a", " ", "b">>)}

NoToken == [type |-> "none", start |-> [base |-> "none", off |-> 0], length |-> 0, line |-> 0]

(***************************************************************************)
(* The two programs as state machines.                                     *)
(***************************************************************************)
\* The VM's statics as the loader leaves them (zeroed) and after initVM().
VMStart ==
    /\ stack = [i \in 0 .. StackMax - 1 |-> 0]
    /\ stackTop = resetStack
    /\ chunk = NoChunk
    /\ ip = 0
    /\ running = FALSE
    /\ result = NoResult
    /\ out = <<>>
    /\ log = <<>>

\* The scanner after initScanner(src).
ScannerStart(src) ==
    /\ source = src
    /\ scanner = initScanner
    /\ token = NoToken
    /\ calls = 0
    /\ tokens = <<>>

\* A call of initScanner(src) at any time: start and current at the first
\* character of the new buffer, line 1.  `token`, `calls` and `tokens` record
\* what scanToken has returned since the last initScanner.
InitScanner(src) ==
    /\ source' = src
    /\ scanner' = initScanner
    /\ token' = NoToken
    /\ calls' = 0
    /\ tokens' = <<>>
    /\ UNCHANGED vmVars

\* A call of scanToken().
ScanToken ==
    /\ calls < Len(source) + 1 + MaxExtraCalls
    /\ LET r == scanToken(source, scanner)
       IN  /\ scanner' = r.sc
           /\ token' = r.token
           /\ tokens' = Append(tokens, r.token)
    /\ calls' = calls + 1
    /\ UNCHANGED source
    /\ UNCHANGED vmVars

VMInit == VMStart /\ ScannerStart(<<>>)
VMNext ==
    \/ InitVM
    \/ \E v \in Values : Push(v)
    \/ Pop
    \/ \E c \in Chunks : Interpret(c)
    \/ Dispatch
VMSpec == VMInit /\ [][VMNext]_vars

\* interpret() alone, call after call on a VM whose stack is left as it is;
\* run()'s loop takes its next turn as long as it has not returned.
RunNext ==
    \/ \E c \in Chunks : Interpret(c)
    \/ Dispatch
RunSpec == VMInit /\ [][RunNext]_vars /\ WF_vars(Dispatch)

ScannerInit == VMStart /\ \E src \in Sources : ScannerStart(src)
ScannerNext ==
    \/ \E src \in Rescans : InitScanner(src)
    \/ ScanToken
ScannerSpec == ScannerInit /\ [][ScannerNext]_vars


(***************************************************************************)
(* Properties of the virtual machine, checked under VMSpec.                *)
(***************************************************************************)
\* log is n pushes followed by n pops.
PushesThenPops(l, n) ==
    /\ Len(l) = 2 * n
    /\ \A i \in 1 .. n : l[i].op = "push"
    /\ \A i \in n + 1 .. 2 * n : l[i].op = "pop"

\* C1: after n <= capacity pushes on an empty stack, n pops return the pushed
\* values in reverse order and leave the stack empty.
C1_StackLaw ==
    \A n \in 1 .. StackMax :
        PushesThenPops(log, n) =>
            /\ \A i \in 1 .. n : log[n + i].value = log[n + 1 - i].value
            /\ stackTop = 0

\* C2: interpret of [load-constant 0, return] with a pool of size >= 1 returns
\* success with exactly one value on the stack, constant 0 of the pool.
C2_LoadConstantPushes ==
    ( /\ chunk.code = <<OP_CONSTANT, 0, OP_RETURN>>
      /\ Len(chunk.constants) >= 1
      /\ ~running
      /\ result # NoResult )
    => /\ result = "INTERPRET_OK"
       /\ stackTop = 1
       /\ stack[0] = chunk.constants[1]

\* C3: a dispatch step that reads a byte that is neither load-constant nor
\* return ends the run with the runtime-error outcome.
C3_UnknownOpcodeHalts ==
    [][ ( /\ running
          /\ ip < Len(chunk.code)
          /\ chunk.code[ip + 1] \notin {OP_CONSTANT, OP_RETURN}
          /\ ip' # ip )
        => (~running' /\ result' = "INTERPRET_RUNTIME_ERROR") ]_vars

\* C4: the number of live stack values stays within 0 .. capacity whatever
\* pushes and pops are made.
C4_StackWithinCapacity == stackTop \in 0 .. StackMax

\* C13: when an interpret call starts, the instruction pointer is at the first
\* instruction and the evaluation stack is empty, whatever was called before.
C13_InterpretStartsClean ==
    [][ (~running /\ running') => (ip' = 0 /\ stackTop' = 0) ]_vars

\* C16: interpret writes nothing to the output stream.
C16_NoOutput == out = <<>>

\* The offsets at which run() fetches an instruction of code: 0, and the
\* offset behind each instruction (two bytes for OP_CONSTANT, else one).
RECURSIVE InstructionsFrom(_, _)
InstructionsFrom(code, p) ==
    IF p >= Len(code) THEN {}
    ELSE {p} \cup InstructionsFrom(code, p + (IF code[p + 1] = OP_CONSTANT THEN 2 ELSE 1))

NoReturnIn(code) == \A p \in InstructionsFrom(code, 0) : code[p + 1] # OP_RETURN

\* A turn of run()'s loop: the only step there is while interpret() runs.
Turn == running /\ <<ip, out, running, result>>' # <<ip, out, running, result>>

\* C20: while interpret runs, ip is at an instruction position or past the
\* end; a turn of the loop moves ip forward, by 2 for OP_CONSTANT and by 1
\* for any other byte; interpret returns exactly on reading OP_RETURN, with
\* INTERPRET_OK and never another outcome; and on a chunk with no OP_RETURN
\* at an instruction position ip gets past the end with interpret still
\* running.
C20_RunAdvances ==
    /\ [](running => (ip >= Len(chunk.code) \/ ip \in InstructionsFrom(chunk.code, 0)))
    /\ [](result \in {NoResult, "INTERPRET_OK"})
    /\ [][ Turn =>
             /\ ip' \in {ip + 1, ip + 2}
             /\ ip < Len(chunk.code) =>
                   /\ ip' = ip + (IF chunk.code[ip + 1] = OP_CONSTANT THEN 2 ELSE 1)
                   /\ running' = (chunk.code[ip + 1] # OP_RETURN)
             /\ result' = IF running' THEN NoResult ELSE "INTERPRET_OK"
             /\ chunk' = chunk ]_vars
    /\ (running /\ NoReturnIn(chunk.code))
          ~> (running /\ ip >= Len(chunk.code) /\ result = NoResult)

\* A chunk of one OP_CONSTANT and one undefined byte, run to its end: the
\* constant printed, ip at the first byte behind the code, no outcome.
C20_Witness ==
    /\ chunk = [code |-> <<OP_CONSTANT, 0, 2>>, constants |-> <<1>>]
    /\ running
    /\ ip = 3
    /\ out = <<1>>
    /\ result = NoResult

(***************************************************************************)
(* Properties of the scanner, checked under ScannerSpec.  After a call,    *)
(* scanner.start is where the call's first significant character is.       *)
(***************************************************************************)
Letters == (Ord("a") .. Ord("z")) \cup (Ord("A") .. Ord("Z")) \cup {Ord("_")}
Digits == Ord("0") .. Ord("9")

\* Number of newlines among the characters at offsets from .. to-1.
Newlines(buf, from, to) == Cardinality({i \in from + 1 .. to : buf[i] = NL})

\* Length of the longest run of characters of S that starts at offset p.
RECURSIVE RunLen(_, _, _)
RunLen(buf, p, S) ==
    IF p < Len(buf) /\ buf[p + 1] \in S THEN 1 + RunLen(buf, p + 1, S) ELSE 0

\* The text of a token that is not an error token.
Lexeme(buf, t) == SubSeq(buf, t.start.off + 1, t.start.off + t.length)

\* C5: end-of-input is returned within Len(source) + 1 calls.
C5_EofWithinLenPlusOne ==
    calls >= Len(source) + 1 =>
        \E i \in 1 .. Len(source) + 1 : tokens[i].type = "TOKEN_EOF"

\* A buffer that needs all of its Len(source) + 1 calls.
C5_Witness ==
    /\ Len(source) >= 2
    /\ calls = Len(source) + 1
    /\ tokens[calls].type = "TOKEN_EOF"
    /\ \A i \in 1 .. calls - 1 : tokens[i].type # "TOKEN_EOF"

\* C6: a scanToken call never moves `current` back, and moves it forward when
\* it starts off the sentinel.
C6_CursorAdvances ==
    [][ calls' = calls + 1 =>
          /\ scanner'.current >= scanner.current
          /\ (CharAt(source, scanner.current) # NUL =>
                scanner'.current > scanner.current) ]_vars

\* A call that returned an error token and consumed characters doing so.
C6_Witness ==
    /\ calls >= 2
    /\ token.type = "TOKEN_ERROR"
    /\ tokens[calls - 1].type # "TOKEN_ERROR"
    /\ scanner.current > tokens[calls - 1].start.off + tokens[calls - 1].length

\* The kind the keyword table gives a word.
KeywordKinds ==
    {<<Str(<<"a", "n", "d">>), "TOKEN_AND">>,
     <<Str(<<"c", "l", "a", "s", "s">>), "TOKEN_CLASS">>,
     <<Str(<<"e", "l", "s", "e">>), "TOKEN_ELSE">>,
     <<Str(<<"f", "a", "l", "s", "e">>), "TOKEN_FALSE">>,
     <<Str(<<"f", "o", "r">>), "TOKEN_FOR">>,
     <<Str(<<"f", "u", "n">>), "TOKEN_FUN">>,
     <<Str(<<"i", "f">>), "TOKEN_IF">>,
     <<Str(<<"n", "i", "l">>), "TOKEN_NIL">>,
     <<Str(<<"o", "r">>), "TOKEN_OR">>,
     <<Str(<<"p", "r", "i", "n", "t">>), "TOKEN_PRINT">>,
     <<Str(<<"r", "e", "t", "u", "r", "n">>), "TOKEN_RETURN">>,
     <<Str(<<"s", "u", "p", "e", "r">>), "TOKEN_SUPER">>,
     <<Str(<<"t", "h", "i", "s">>), "TOKEN_THIS">>,
     <<Str(<<"t", "r", "u", "e">>), "TOKEN_TRUE">>,
     <<Str(<<"v", "a", "r">>), "TOKEN_VAR">>,
     <<Str(<<"w", "h", "i", "l", "e">>), "TOKEN_WHILE">>}

KindOfWord(w) ==
    IF \E e \in KeywordKinds : e[1] = w
    THEN (CHOOSE e \in KeywordKinds : e[1] = w)[2]
    ELSE "TOKEN_IDENTIFIER"

\* C7: a word (a maximal run of letters, digits and underscores that starts
\* with a letter or underscore) is returned whole, as the keyword kind whose
\* text it equals, and as an identifier if it equals none.
C7_KeywordExactMatch ==
    (calls > 0 /\ CharAt(source, scanner.start) \in Letters) =>
        /\ token.start = SrcPtr(scanner.start)
        /\ token.length = RunLen(source, scanner.start, Letters \cup Digits)
        /\ token.type = KindOfWord(Lexeme(source, token))

\* "for forest fo": a keyword, a proper extension of it and a proper prefix.
C7_Witness ==
    /\ source = Str(<<"f", "o", "r", " ", "f", "o", "r", "e", "s", "t", " ", "f", "o">>)
    /\ calls = 3
    /\ [i \in 1 .. 3 |-> tokens[i].type]
         = <<"TOKEN_FOR", "TOKEN_IDENTIFIER", "TOKEN_IDENTIFIER">>
    /\ [i \in 1 .. 3 |-> tokens[i].length] = <<3, 6, 2>>

\* C8: a token's line is 1 + the number of newlines before the first
\* character of its lexeme.
C8_LineOfLexemeStart ==
    (token.type # "none" /\ token.type # "TOKEN_ERROR") =>
        token.line = 1 + Newlines(source, 0, token.start.off)

\* C9: at a double quote, a string token from the opening to the closing quote
\* if there is a closing quote; otherwise the "Unterminated string." error at
\* the opening quote's line plus the newlines consumed, the cursor on the
\* sentinel.
C9_StringOrUnterminated ==
    (calls > 0 /\ CharAt(source, scanner.start) = Quote) =>
        LET open == scanner.start
            body == RunLen(source, open + 1, (0 .. 127) \ {Quote})
        IN  IF open + 1 + body < Len(source)
            THEN /\ token.type = "TOKEN_STRING"
                 /\ token.start = SrcPtr(open)
                 /\ token.length = body + 2
                 /\ scanner.current = open + body + 2
            ELSE /\ token.type = "TOKEN_ERROR"
                 /\ token.start = MsgPtr("Unterminated string.")
                 /\ token.line = 1 + Newlines(source, 0, open)
                                   + Newlines(source, open, Len(source))
                 /\ scanner.current = Len(source)

\* A string token, then an unterminated string that runs over a newline.
C9_Witness ==
    /\ calls = 2
    /\ tokens[1].type = "TOKEN_STRING" /\ tokens[1].length = 3
    /\ tokens[2].type = "TOKEN_ERROR" /\ tokens[2].start = MsgPtr("Unterminated string.")
    /\ tokens[2].line = 2
    /\ scanner.current = Len(source)

\* The extent of the number that starts at offset p.
NumberLen(buf, p) ==
    LET d == RunLen(buf, p, Digits)
    IN  IF /\ CharAt(buf, p + d) = Dot
           /\ CharAt(buf, p + d + 1) \in Digits
        THEN d + 1 + RunLen(buf, p + d + 1, Digits)
        ELSE d

\* C10: at a digit, a number token of the digits, with '.' and more digits only
\* when a digit follows the '.'; a '.' left out is the next call's dot token.
C10_NumberExtent ==
    /\ (calls > 0 /\ CharAt(source, scanner.start) \in Digits) =>
          /\ token.type = "TOKEN_NUMBER"
          /\ token.start = SrcPtr(scanner.start)
          /\ token.length = NumberLen(source, scanner.start)
          /\ scanner.current = scanner.start + token.length
    /\ \A i \in 1 .. Len(tokens) - 1 :
          LET end == tokens[i].start.off + tokens[i].length
          IN  ( /\ tokens[i].type = "TOKEN_NUMBER"
                /\ CharAt(source, end) = Dot
                /\ CharAt(source, end + 1) \notin Digits )
              => /\ tokens[i + 1].type = "TOKEN_DOT"
                 /\ tokens[i + 1].start = SrcPtr(end)
                 /\ tokens[i + 1].length = 1

\* "12.": the number 12, then the dot.
C10_Witness ==
    /\ source = Str(<<"1", "2", ".">>)
    /\ calls = 2
    /\ tokens[1] = [type |-> "TOKEN_NUMBER", start |-> SrcPtr(0), length |-> 2, line |-> 1]
    /\ tokens[2].type = "TOKEN_DOT"


\* The kinds of the operators that may take a '=': <<alone, with '='>>.
OperatorKinds ==
    (Ord("!") :> <<"TOKEN_BANG", "TOKEN_BANG_EQUAL">>)
    @@ (Ord("=") :> <<"TOKEN_EQUAL", "TOKEN_EQUAL_EQUAL">>)
    @@ (Ord("<") :> <<"TOKEN_LESS", "TOKEN_LESS_EQUAL">>)
    @@ (Ord(">") :> <<"TOKEN_GREATER", "TOKEN_GREATER_EQUAL">>)

\* C11: at '!', '=', '<' or '>', the two-character token and both characters
\* consumed if '=' follows, else the one-character token and one consumed.
C11_OneOrTwoCharOperator ==
    (calls > 0 /\ CharAt(source, scanner.start) \in DOMAIN OperatorKinds) =>
        LET kinds == OperatorKinds[CharAt(source, scanner.start)]
            two == CharAt(source, scanner.start + 1) = Equal
        IN  /\ token.type = IF two THEN kinds[2] ELSE kinds[1]
            /\ token.start = SrcPtr(scanner.start)
            /\ token.length = IF two THEN 2 ELSE 1
            /\ scanner.current = scanner.start + token.length

\* "===": the two-character token, then '=' alone as the last character.
C11_Witness ==
    /\ source = Str(<<"=", "=", "=">>)
    /\ calls = 2
    /\ tokens[1] = [type |-> "TOKEN_EQUAL_EQUAL", start |-> SrcPtr(0), length |-> 2, line |-> 1]
    /\ tokens[2] = [type |-> "TOKEN_EQUAL", start |-> SrcPtr(2), length |-> 1, line |-> 1]
    /\ scanner.current = 3

\* C12: a token that is not an error token spans characters of the buffer, at
\* least one of them, but for end-of-input, which spans none at the sentinel.
C12_TokenSpan ==
    token.type \notin {"none", "TOKEN_ERROR"} =>
        /\ token.start.base = "source"
        /\ token.start.off >= 0
        /\ IF token.type = "TOKEN_EOF"
           THEN token.length = 0 /\ token.start.off = Len(source)
           ELSE token.length >= 1 /\ token.start.off + token.length <= Len(source)

\* An end-of-input token after a token that runs up to the sentinel.
C12_Witness ==
    /\ calls = 2
    /\ tokens[1].type = "TOKEN_IDENTIFIER"
    /\ tokens[1].start.off + tokens[1].length = Len(source)
    /\ token = [type |-> "TOKEN_EOF", start |-> SrcPtr(Len(source)), length |-> 0,
                line |-> 1]


\* The tokens that k successive scanToken calls return from scanner state sc.
RECURSIVE TokensFrom(_, _, _)
TokensFrom(buf, sc, k) ==
    IF k = 0 THEN <<>>
    ELSE LET r == scanToken(buf, sc)
         IN  <<r.token>> \o TokensFrom(buf, r.sc, k - 1)

\* Token t of a buffer, as the token of a buffer that has d more characters
\* and l more newlines in front.
Shifted(t, d, l) ==
    IF t.start.base = "source"
    THEN [t EXCEPT !.start = SrcPtr(t.start.off + d), !.line = @ + l]
    ELSE [t EXCEPT !.line = @ + l]

\* C14: after the "Unexpected character." error the cursor is one character
\* past the offending one and the calls that follow return what a scan of the
\* rest of the buffer returns; after "Unterminated string." comes end-of-input.
C14_ScanningGoesOnAfterError ==
    /\ (token.type = "TOKEN_ERROR" /\ token.start = MsgPtr("Unexpected character.")) =>
          /\ scanner.current = scanner.start + 1
          /\ LET rest == SubSeq(source, scanner.current + 1, Len(source))
                 k == Len(rest) + 1
                 alone == TokensFrom(rest, initScanner, k)
             IN  TokensFrom(source, scanner, k)
                   = [i \in 1 .. k |-> Shifted(alone[i], scanner.current, scanner.line - 1)]
    /\ \A i \in 1 .. Len(tokens) - 1 :
          (tokens[i].type = "TOKEN_ERROR" /\ tokens[i].start = MsgPtr("Unterminated string."))
          => tokens[i + 1].type = "TOKEN_EOF"

\* '@', '1', '"': the error, the number after it, the unterminated string,
\* end-of-input.
C14_Witness ==
    /\ source = Str(<<"@", "1", "\"">>)
    /\ calls = 4
    /\ tokens[1].start = MsgPtr("Unexpected character.")
    /\ tokens[2] = [type |-> "TOKEN_NUMBER", start |-> SrcPtr(1), length |-> 1, line |-> 1]
    /\ tokens[3].start = MsgPtr("Unterminated string.")
    /\ tokens[4].type = "TOKEN_EOF"


\* C15: once a call has returned end-of-input, a later call returns the same
\* end-of-input token (same span position, same line) and leaves start,
\* current and line of the scanner as they were.
C15_EofRepeats ==
    [][ (token.type = "TOKEN_EOF" /\ calls' = calls + 1) =>
            /\ token'.type = "TOKEN_EOF"
            /\ token'.start = token.start
            /\ token'.length = token.length
            /\ token'.line = token.line
            /\ scanner' = scanner ]_vars

\* Two calls past the first end-of-input token of a three-character buffer
\* that ends in a newline.
C15_Witness ==
    /\ Len(source) = MaxLen
    /\ source[MaxLen] = NL
    /\ calls >= 3
    /\ tokens[calls - 2].type = "TOKEN_EOF"
    /\ tokens[calls - 1] = tokens[calls - 2]
    /\ tokens[calls] = tokens[calls - 2]
    /\ scanner.current = Len(source)


Blanks == {Space, Tab, CR, NL}

\* Position i lies in a line comment that starts at or after position p:
\* "//" at some j in p .. i with no newline from j to i.
InComment(buf, p, i) ==
    \E j \in p .. i :
        /\ CharAt(buf, j) = Slash
        /\ CharAt(buf, j + 1) = Slash
        /\ \A m \in j .. i : CharAt(buf, m) # NL

\* C17: a scanToken call that starts with the cursor at p pins the lexeme
\* start s behind blanks and whole line comments only: a comment is skipped up
\* to its newline or the sentinel, none of it is in the returned span, every
\* newline passed is counted once, and a '/' that does not start a comment is
\* the one-character slash token.
C17_LineComments ==
    [][ calls' = calls + 1 =>
          LET p == scanner.current
              s == scanner'.start
              e == scanner'.current
          IN  /\ p <= s
              /\ \A i \in p .. s - 1 :
                    CharAt(source, i) \in Blanks \/ InComment(source, p, i)
              /\ CharAt(source, s) \notin Blanks
              /\ s < Len(source) =>
                    ~(CharAt(source, s) = Slash /\ CharAt(source, s + 1) = Slash)
              /\ (s > p /\ InComment(source, p, s - 1)) => s = Len(source)
              /\ scanner'.line = scanner.line + Newlines(source, p, e)
              /\ token'.type # "TOKEN_ERROR" =>
                    token'.start = SrcPtr(s) /\ token'.length = e - s
              /\ CharAt(source, s) = Slash =>
                    /\ token'.type = "TOKEN_SLASH"
                    /\ token'.length = 1
                    /\ e = s + 1 ]_vars

\* A comment holding a quote, its newline, the slash token on line 2, a
\* number, and a comment that runs to the sentinel.
C17_Witness ==
    /\ source = Str(<<"/", "/", " ", "\"", "\n", "/", "1", "/", "/">>)
    /\ calls = 3
    /\ tokens[1] = [type |-> "TOKEN_SLASH", start |-> SrcPtr(5), length |-> 1, line |-> 2]
    /\ tokens[2].type = "TOKEN_NUMBER"
    /\ tokens[3] = [type |-> "TOKEN_EOF", start |-> SrcPtr(9), length |-> 0, line |-> 2]


\* C18: start <= current <= position of the sentinel in every state after
\* initScanner and any number of scanToken calls.  (A read beyond the
\* sentinel has no value in this model, see CharAt: the scanner reading one
\* would stop TLC with an error instead of producing a state.)
C18_CursorWithinBuffer ==
    /\ 0 <= scanner.start
    /\ scanner.start <= scanner.current
    /\ scanner.current <= Len(source)

\* A string without closing quote: the body loop ran into the sentinel and
\* the cursor stays on it in the calls that follow.
C18_Witness ==
    /\ source = Str(<<"\"", "a", "b", "c">>)
    /\ calls = 2
    /\ tokens[1].start = MsgPtr("Unterminated string.")
    /\ tokens[2].type = "TOKEN_EOF"
    /\ scanner.current = Len(source)


\* The returned tokens that have a span in the source, in call order.
Spanned == SelectSeq(tokens, LAMBDA t : t.type # "TOKEN_ERROR")

\* Position i lies in the span of a returned non-error token.
Covered(i) ==
    \E n \in 1 .. Len(Spanned) :
        Spanned[n].start.off <= i /\ i < Spanned[n].start.off + Spanned[n].length

\* Position i lies in a line comment: behind a "//" outside every span, on
\* the same line.
CommentChar(i) ==
    \E j \in 0 .. i :
        /\ ~Covered(j)
        /\ CharAt(source, j) = Slash
        /\ CharAt(source, j + 1) = Slash
        /\ \A m \in j .. i : CharAt(source, m) # NL

\* Position i lies in a string that has no closing quote, reported as such.
UnterminatedChar(i) ==
    /\ \E n \in 1 .. Len(tokens) : tokens[n].start = MsgPtr("Unterminated string.")
    /\ scanner.current = Len(source)
    /\ \E q \in 0 .. i :
          /\ ~Covered(q)
          /\ CharAt(source, q) = Quote
          /\ \A m \in q + 1 .. Len(source) - 1 : CharAt(source, m) # Quote

\* The characters at which scanToken starts a lexeme.
LexemeStarts ==
    Letters \cup Digits \cup DOMAIN Punctuation \cup DOMAIN OperatorKinds \cup {Quote}

\* The positions consumed so far that are in no span and are neither blank
\* nor in a comment nor in an unterminated string.
Strays ==
    {i \in 0 .. scanner.current - 1 :
        /\ ~Covered(i)
        /\ CharAt(source, i) \notin Blanks
        /\ ~CommentChar(i)
        /\ ~UnterminatedChar(i)}

\* C19: the spans of the non-error tokens returned so far are disjoint and in
\* increasing source order (strictly, but for the repeated empty end-of-input
\* span), and a consumed character in no span is a blank, a comment character,
\* part of an unterminated string, or the one character of an "Unexpected
\* character." error: as many of these as there were such errors.
C19_SpansTileTheSource ==
    /\ \A m, n \in 1 .. Len(Spanned) :
          m < n =>
             /\ Spanned[m].start.off + Spanned[m].length <= Spanned[n].start.off
             /\ Spanned[m].type # "TOKEN_EOF" => Spanned[m].start.off < Spanned[n].start.off
    /\ \A i \in Strays : CharAt(source, i) \notin LexemeStarts
    /\ Cardinality(Strays)
         = Cardinality({n \in 1 .. Len(tokens) :
                           tokens[n].start = MsgPtr("Unexpected character.")})

\* '@', a blank, a number, a comment, its newline and a string without
\* closing quote, scanned to end-of-input.
C19_Witness ==
    /\ source = Str(<<"@", " ", "1", "/", "/", "x", "\n", "\"", "a">>)
    /\ calls = 4
    /\ Len(Spanned) = 2
    /\ Strays = {0}
    /\ Covered(2)
    /\ CommentChar(5)
    /\ UnterminatedChar(8)
    /\ tokens[4].type = "TOKEN_EOF"

====
